---- MODULE Spec2Model ----
(***************************************************************************)
(* State-machine model of app.js: the Express request handlers, the        *)
(* passport session wiring, the User and Post collections and the upload   *)
(* directory.  One action per handler step; a handler is cut at each       *)
(* await / callback boundary, where other requests may interleave.         *)
(***************************************************************************)
EXTENDS Integers, Sequences, FiniteSets, Bags, TLC

\* ------------------------------------------------------------ bounds
MaxUsers == 2
MaxPosts == 1
MaxBlobs == 2
MaxRequests == 3
MaxLiveRequests == 2
MaxFeedPosts == 3
MaxTime == 3
MaxFeedRequests == 2

Clients == {"c1", "c2"}

\* ------------------------------------------------------------ values
NoUser == 0
NoPost == 0
NoFile == 0
\* a :id parameter that is not an ObjectId string
BadId == -1

Path(p) == [path |-> p, id |-> 0]
EditPath(id) == [path |-> "/post/edit", id |-> id]
NoUrl == Path("")
\* req.url of a request to the homepage, query string included
HomeUrl(sortby) ==
    IF sortby = "old" THEN Path("/?sortby=old")
    ELSE IF sortby = "new" THEN Path("/?sortby=new")
    ELSE Path("/")
\* req.query.sortby: 'old', another value, or absent
Sortbys == {"old", "new", ""}

Email(l, d) == [local |-> l, domain |-> d]
Cred(e, p) == [email |-> e, password |-> p]
\* the email/password pairs clients submit: two accounts, a second password
\* for the first, and a pair that fails both validations
Credentials ==
    {Cred(Email("ann", "x.io"), <<1, 1, 1, 1, 1, 1>>),
     Cred(Email("ann", "x.io"), <<2, 2, 2, 2, 2, 2>>),
     Cred(Email("bob", "x.io"), <<1, 1, 1, 1, 1, 1>>),
     Cred(Email("ann", ""), <<3, 3, 3>>)}
\* the title/body pairs clients submit
Texts == {[title |-> "t1", body |-> "b1"], [title |-> "t2", body |-> "b2"]}

MinPasswordLength == 6
SaltRounds == 10

Routes == {"GET /", "GET /signup", "POST /signup", "GET /login", "POST /login",
           "GET /logout", "POST /post", "GET /myposts", "GET /dashboard",
           "GET /delete", "GET /posts", "GET /posts/user",
           "GET /post/edit", "POST /post/edit"}

\* ------------------------------------------------------------ pure helpers
\* express-validator: body('email').isEmail()
isEmail(e) == e.local # "" /\ e.domain # ""

\* validationResult(req).array().map(error => error.msg)
validateEmail(e, p) ==
    (IF isEmail(e) THEN <<>> ELSE <<"Please enter a valid email address">>)
    \o (IF Len(p) >= MinPasswordLength THEN <<>>
        ELSE <<"Password must be atleast 6 letters long">>)

\* bcrypt.hash(password, 10) and bcrypt.compare(password, hash)
Hash(p) == [alg |-> "bcrypt", rounds |-> SaltRounds, of |-> p]
Compare(p, h) == h = Hash(p)

\* req.user.email.split('@')[0]
Username(e) == e.local

\* req.isAuthenticated()
isAuthenticated(r) == r.user # NoUser

\* userSchema has no admin field: `admin: false` is dropped on save and
\* req.user.isAdmin reads as undefined for every User
isAdmin(u) == FALSE

isValid_Always(id) == TRUE

\* mongoose.Types.ObjectId.isValid(postId): ids are the positive integers
isValid(id) == id >= 1

SortOrder_Newest(sortby) == -1

\* .sort({ createdAt: 1 }) when req.query.sortby === 'old', else { createdAt: -1 }
SortOrder(sortby) == IF sortby = "old" THEN 1 ELSE -1

MayDelete_LoggedIn(author, u) == u # NoUser

\* post.authorId.toString() !== userId.toString() && !req.user.isAdmin
MayDelete(author, u) == ~(author # u /\ ~isAdmin(u))

MayEdit_Anyone(author, u) == TRUE

\* post.authorId.toString() !== req.user._id.toString()
MayEdit(author, u) == ~(author # u)

RedirectTarget_Dashboard(cookie) == Path("/dashboard")

\* if (req.cookies.redUrl) redirect(redUrl) else redirect('/dashboard')
RedirectTarget(cookie) == IF cookie # NoUrl THEN cookie ELSE Path("/dashboard")

EditedFilename_Always(old, file) == file

\* if (req.file) post.filename = req.file.filename
EditedFilename(old, file) == IF file # NoFile THEN file ELSE old

\* ------------------------------------------------------------ state
VARIABLES
    users,     \* User collection: sequence of [email, password]; the id is the index
    posts,     \* Post collection: function from post id to the document
    blobs,     \* files present in public/uploads/
    nextBlob,  \* names handed out by uuidv4()
    nextPost,  \* ids handed out to new Post documents
    session,   \* per client: the User id passport serialized into the session
    redUrl,    \* per client: the redUrl cookie
    req,       \* per client: the request in flight (or the last one answered)
    unlinks,   \* fs.unlink calls issued and not yet completed (a bag)
    sent,      \* requests received so far
    alive,     \* FALSE once an uncaught exception has ended the process
    detour,    \* history, per client: progress along GET /myposts -> GET /login -> POST /login
    spent,     \* history, per client: a login or signup has redirected to the recorded path
    loggedOut, \* history, per client: logged out and not signed in again since
    saves      \* history: the ids of the Posts edit submissions have saved, in order

vars == <<users, posts, blobs, nextBlob, nextPost, session, redUrl, req,
          unlinks, sent, alive, detour, spent, loggedOut, saves>>

Idle ==
    [route |-> "", pc |-> "idle", user |-> NoUser, cookie |-> NoUrl,
     email |-> Email("", ""), password |-> <<>>, id |-> NoPost,
     title |-> "", body |-> "", file |-> NoFile,
     filename |-> NoFile, author |-> NoUser, newUser |-> NoUser,
     sortby |-> "", createdAt |-> 0,
     status |-> "", target |-> NoUrl, flash |-> <<>>,
     list |-> <<>>,   \* the Posts handed to the view, in order
     seen |-> 0,   \* history: how many edit saves preceded this request's fetch
     made |-> 0,   \* history: User documents this request has added
     eff |-> {}]   \* history: what this request has met and done so far

\* The server starts with no session and no request, against a database and
\* an upload directory that are either empty or hold what earlier runs left:
\* two Users and a Post of the first with its image.
Empty ==
    /\ users = <<>>
    /\ posts = [i \in {} |-> 0]
    /\ blobs = {}
    /\ nextBlob = 1
    /\ nextPost = 1

Seeded ==
    /\ users = <<[email |-> Email("ann", "x.io"), password |-> Hash(<<1, 1, 1, 1, 1, 1>>)],
                 [email |-> Email("bob", "x.io"), password |-> Hash(<<1, 1, 1, 1, 1, 1>>)]>>
    /\ posts = [i \in {1} |->
                  [title |-> "t1", body |-> "b1", filename |-> 1, authorId |-> 1,
                   username |-> Username(Email("ann", "x.io")), createdAt |-> 0]]
    /\ blobs = {1}
    /\ nextBlob = 2
    /\ nextPost = 2

\* nothing has been received and nobody is signed in
Started ==
    /\ redUrl = [c \in Clients |-> NoUrl]
    /\ req = [c \in Clients |-> Idle]
    /\ unlinks = EmptyBag
    /\ sent = 0
    /\ alive = TRUE
    /\ detour = [c \in Clients |-> 0]
    /\ spent = [c \in Clients |-> FALSE]
    /\ loggedOut = [c \in Clients |-> FALSE]
    /\ saves = <<>>

Init ==
    /\ Empty \/ Seeded
    /\ session = [c \in Clients |-> NoUser]
    /\ Started

\* ------------------------------------------------------------ store helpers
UserIds == 1..Len(users)
PostIds == DOMAIN posts

\* User.findOne({ email }): the documents the query may return
findOne(e) == {i \in UserIds : users[i].email = e}

\* a client may send a request when none of its requests is being handled;
\* a request left without a response is abandoned by the client
CanSend(c) ==
    /\ alive /\ req[c].pc \in {"idle", "done", "hung"}
    /\ sent < MaxRequests
    /\ sent' = sent + 1

\* the clients whose request in flight stands at one of the steps `pcs`
Pending(pcs) == {c \in Clients : req[c].pc \in pcs}

\* the request as it enters the route: passport.session has attached req.user
\* and cookieParser has read the redUrl cookie
Incoming(c, route) ==
    [Idle EXCEPT !.route = route, !.pc = "run",
                 !.user = session[c], !.cookie = redUrl[c]]

\* the request's inputs and locals go with the handler's frame; what is kept
\* is the identity of the request and what it did
Ended(r) ==
    [r EXCEPT !.cookie = NoUrl, !.password = <<>>, !.title = "", !.body = "",
              !.file = NoFile, !.author = NoUser, !.createdAt = 0, !.seen = 0]

Answer(r, status, target) ==
    [Ended(r) EXCEPT !.pc = "done", !.status = status, !.target = target]

Render(r, view) == Answer(r, "render", Path(view))
Redirect(r, to) == Answer(r, "redirect", to)
Status(r, code, text) == Answer(r, code, Path(text))
\* the handler ended without sending anything
Hang(r) == [Ended(r) EXCEPT !.pc = "hung"]

Did(r, e) == [r EXCEPT !.eff = @ \cup {e}]
\* history: the request met a state of which `fact` holds
Seen(r, e, fact) == IF fact THEN Did(r, e) ELSE r

\* history: the Users registered under an email, and with a password
Registered(e) == {i \in 1..Len(users) : users[i].email = e}
RegisteredAs(e, p) == {i \in Registered(e) : users[i].password.of = p}
\* history: a well-formed email and a password of at least 6 characters
WellFormed(cred) ==
    /\ cred.email.local # "" /\ cred.email.domain # ""
    /\ Len(cred.password) >= 6

\* the GET /myposts -> GET /login -> POST /login monitor
Step(c, r) ==
    detour' = [detour EXCEPT ![c] =
        IF r.pc # "done" THEN @
        ELSE IF r.route = "GET /myposts" /\ r.user = NoUser THEN 1
        ELSE IF r.route = "GET /login" /\ @ = 1 /\ r.status = "render" THEN 2
        ELSE IF r.route = "POST /login" /\ @ = 2 /\ "login" \in r.eff THEN 3
        ELSE 0]

\* the routes behind storeOriginalUrl
RecordingRoutes == {"GET /", "GET /myposts", "GET /post/edit"}

\* history: set when a login or signup is answered with the recorded path,
\* cleared when the client, not signed in, enters a recording route
Spend(c, r) ==
    spent' = [spent EXCEPT ![c] =
        IF req[c].pc \in {"login", "establish"} /\ "login" \in r.eff
        THEN (@ \/ req[c].cookie # NoUrl)
        ELSE IF req[c].pc \in {"idle", "done", "hung"}
                /\ r.route \in RecordingRoutes /\ r.user = NoUser
        THEN FALSE
        ELSE @]

\* history: set by the redirect of GET /logout, cleared by a login or signup
\* that established a session
Leave(c, r) ==
    loggedOut' = [loggedOut EXCEPT ![c] =
        IF req[c].pc = "logOut" /\ r.status = "redirect" THEN TRUE
        ELSE IF req[c].pc \in {"login", "establish"} /\ "login" \in r.eff THEN FALSE
        ELSE @]

\* history: an edit submission's save went through
Log(c, r) ==
    saves' = IF req[c].pc = "update" /\ r.status = "redirect"
             THEN Append(saves, r.id) ELSE saves

Set(c, r) ==
    /\ req' = [req EXCEPT ![c] = r]
    /\ Step(c, r) /\ Spend(c, r) /\ Leave(c, r) /\ Log(c, r)

\* ------------------------------------------------------------ session restore
\* passport.deserializeUser: User.findById(id) rejects -> done(err) -> the
\* request is answered by the default error handler, whatever the route
DeserializeError(c, route) ==
    /\ CanSend(c)
    /\ session[c] # NoUser
    /\ Set(c, Status(Did(Incoming(c, route), "lookupFailed"), "500", "error"))
    /\ UNCHANGED <<users, posts, blobs, nextBlob, nextPost, session, redUrl,
                   unlinks, alive>>

\* ------------------------------------------------------------ signup
\* app.get('/signup', isLoggedOut, ...)
GetSignup(c) ==
    /\ CanSend(c)
    /\ LET r == Incoming(c, "GET /signup") IN
       Set(c, IF isAuthenticated(r) THEN Redirect(r, Path("/dashboard"))
              ELSE Render(r, "signup"))
    /\ UNCHANGED <<users, posts, blobs, nextBlob, nextPost, session, redUrl,
                   unlinks, alive>>

\* app.post('/signup', validateEmail, isLoggedOut, ...) up to the first await
PostSignup(c, cred) ==
    /\ CanSend(c)
    /\ LET r == [Incoming(c, "POST /signup") EXCEPT
                    !.email = cred.email, !.password = cred.password] IN
       Set(c, IF isAuthenticated(r) THEN Redirect(r, Path("/dashboard"))
              ELSE [Seen(r, "valid", WellFormed(cred)) EXCEPT !.pc = "findOne"])
    /\ UNCHANGED <<users, posts, blobs, nextBlob, nextPost, session, redUrl,
                   unlinks, alive>>

\* what follows `await User.findOne(...)` up to the next await; the handler
\* has no try/catch, so a rejected await ends it without a response
SignupChecked(r, existingUser) ==
    LET errors == validateEmail(r.email, r.password) IN
    IF errors # <<>>
    THEN [Redirect(r, Path("/signup")) EXCEPT !.flash = errors]
    ELSE IF existingUser # NoUser
    THEN Answer(r, "send", Path("Email is already in use."))
    ELSE [r EXCEPT !.pc = "save"]

\* a rejected promise nobody handles: Node warns and goes on, or (from
\* version 15, by default) ends the process
Unhandled == alive' \in BOOLEAN

SignupFindOne(c, ok) ==
    /\ alive /\ req[c].pc = "findOne"
    /\ LET r == Seen(req[c], "unused", Registered(req[c].email) = {}) IN
       IF ~ok THEN Set(c, Hang(r)) /\ Unhandled
       ELSE /\ \E u \in (IF findOne(r.email) = {} THEN {NoUser} ELSE findOne(r.email)) :
                    Set(c, SignupChecked(r, u))
            /\ UNCHANGED alive
    /\ UNCHANGED <<sent, users, posts, blobs, nextBlob, nextPost, session, redUrl,
                   unlinks>>

\* new User({email, password: hash, admin: false})
NewUser(email, password) == [email |-> email, password |-> Hash(password)]

\* await bcrypt.hash(...); await newUser.save()
SignupSave(c, ok) ==
    /\ alive /\ req[c].pc = "save" /\ req[c].route = "POST /signup"
    /\ ok => Len(users) < MaxUsers
    /\ LET r == req[c] IN
       IF ~ok THEN Set(c, Hang(r)) /\ Unhandled /\ UNCHANGED users
       ELSE /\ users' = Append(users, NewUser(r.email, r.password))
            /\ Set(c, [r EXCEPT !.pc = "login", !.newUser = Len(users) + 1,
                                 !.made = @ + Len(users') - Len(users)])
            /\ UNCHANGED alive
    /\ UNCHANGED <<sent, posts, blobs, nextBlob, nextPost, session, redUrl,
                   unlinks>>

serializeUser_Nothing(id) == NoUser

\* passport.serializeUser: the session keeps user.id
serializeUser(id) == id

\* req.login(newUser, err => ...): an error is logged and nothing is sent
SignupLogin(c, ok) ==
    /\ alive /\ req[c].pc = "login" /\ req[c].route = "POST /signup"
    /\ LET r == req[c] IN
       IF ~ok THEN Set(c, Hang(r)) /\ UNCHANGED session
       ELSE /\ session' = [session EXCEPT ![c] = serializeUser(r.newUser)]
            /\ Set(c, Redirect(Did(r, "login"), RedirectTarget(r.cookie)))
    /\ UNCHANGED <<sent, users, posts, blobs, nextBlob, nextPost, redUrl,
                   unlinks, alive>>

\* ------------------------------------------------------------ login
\* app.get('/login', isLoggedOut, ...)
GetLogin(c) ==
    /\ CanSend(c)
    /\ LET r == Incoming(c, "GET /login") IN
       Set(c, IF isAuthenticated(r) THEN Redirect(r, Path("/dashboard"))
              ELSE Render(r, "login"))
    /\ UNCHANGED <<users, posts, blobs, nextBlob, nextPost, session, redUrl,
                   unlinks, alive>>

\* app.post('/login', validateEmail, passport.authenticate('local', ...), ...):
\* the validation result is never read and no isLoggedOut gate is installed
PostLogin(c, cred) ==
    /\ CanSend(c)
    /\ Set(c, [Incoming(c, "POST /login") EXCEPT
                  !.email = cred.email, !.password = cred.password, !.pc = "verify"])
    /\ UNCHANGED <<users, posts, blobs, nextBlob, nextPost, session, redUrl,
                   unlinks, alive>>

\* the LocalStrategy verify callback after `await User.findOne({ email })`:
\* NoUser stands for done(null, false, {message})
Verify(user, password) ==
    IF user = NoUser THEN [user |-> NoUser, message |-> "Incorrect email or password"]
    ELSE IF ~Compare(password, users[user].password)
    THEN [user |-> NoUser, message |-> "Incorrect email or password"]
    ELSE [user |-> user, message |-> ""]

\* failureRedirect: '/login', failureFlash: true; done(error) -> next(error)
LoginVerify(c, ok) ==
    /\ alive /\ req[c].pc = "verify"
    /\ LET r == Seen(Seen(Seen(req[c],
                 "correct", RegisteredAs(req[c].email, req[c].password) # {}),
                 "unknown", Registered(req[c].email) = {}),
                 "wrong", /\ Registered(req[c].email) # {}
                          /\ RegisteredAs(req[c].email, req[c].password) = {}) IN
       IF ~ok THEN Set(c, Status(r, "500", "error"))
       ELSE \E u \in (IF findOne(r.email) = {} THEN {NoUser} ELSE findOne(r.email)) :
            LET v == Verify(u, r.password) IN
            Set(c, IF v.user = NoUser
                   THEN [Redirect(r, Path("/login")) EXCEPT !.flash = <<v.message>>]
                   ELSE [r EXCEPT !.pc = "establish", !.newUser = v.user])
    /\ UNCHANGED <<sent, users, posts, blobs, nextBlob, nextPost, session, redUrl,
                   unlinks, alive>>

\* passport.authenticate's req.logIn, then the route's own callback
LoginEstablish(c, ok) ==
    /\ alive /\ req[c].pc = "establish"
    /\ LET r == req[c] IN
       IF ~ok THEN Set(c, Status(r, "500", "error")) /\ UNCHANGED session
       ELSE /\ session' = [session EXCEPT ![c] = serializeUser(r.newUser)]
            /\ Set(c, Redirect(Did(r, "login"), RedirectTarget(r.cookie)))
    /\ UNCHANGED <<sent, users, posts, blobs, nextBlob, nextPost, redUrl,
                   unlinks, alive>>

\* app.get('/logout', ...): req.logOut(cb); on an error cb calls the
\* undefined `next`, a ReferenceError thrown out of the callback
GetLogout(c) ==
    /\ CanSend(c)
    /\ Set(c, [Incoming(c, "GET /logout") EXCEPT !.pc = "logOut"])
    /\ UNCHANGED <<users, posts, blobs, nextBlob, nextPost, session, redUrl,
                   unlinks, alive>>

LogoutDone(c, ok) ==
    /\ alive /\ req[c].pc = "logOut"
    /\ LET r == req[c] IN
       IF ~ok THEN Set(c, Hang(r)) /\ alive' = FALSE /\ UNCHANGED session
       ELSE /\ session' = [session EXCEPT ![c] = NoUser]
            /\ Set(c, Redirect(r, Path("/")))
            /\ UNCHANGED alive
    /\ UNCHANGED <<sent, users, posts, blobs, nextBlob, nextPost, redUrl, unlinks>>

\* ------------------------------------------------------------ posts
\* multer diskStorage: the file is written under a fresh uuid name
Upload(hasFile) == IF hasFile THEN nextBlob ELSE NoFile

Uploaded(file) ==
    /\ blobs' = (IF file # NoFile THEN blobs \cup {file} ELSE blobs)
    /\ nextBlob' = (IF file # NoFile THEN nextBlob + 1 ELSE nextBlob)

\* new Post({title, body, filename, authorId, username, createdAt})
NewPost(r) ==
    [title |-> r.title, body |-> r.body, filename |-> r.file,
     authorId |-> r.user, username |-> Username(users[r.user].email),
     createdAt |-> r.createdAt]

\* new Date(): the clock is read as the number of the request being handled
Now == sent + 1

\* app.post('/post', isLoggedin, upload.single('image'), ...) up to the await;
\* without a file `req.file.filename` throws into the catch
PostPost(c, text, hasFile) ==
    /\ CanSend(c)
    /\ nextBlob <= MaxBlobs
    /\ nextPost + Cardinality(Pending({"create"})) <= MaxPosts
    /\ LET r == [Incoming(c, "POST /post") EXCEPT
                    !.title = text.title, !.body = text.body]
           file == Upload(hasFile) IN
       IF ~isAuthenticated(r)
       THEN Set(c, Redirect(r, Path("/login"))) /\ UNCHANGED <<blobs, nextBlob>>
       ELSE /\ Uploaded(file)
            /\ Set(c, IF file = NoFile
                      THEN [Status(r, "500", "Internal Server Error") EXCEPT
                               !.flash = <<"Internal Server Error">>]
                      ELSE [Did(r, "upload") EXCEPT !.file = file, !.createdAt = Now,
                                                    !.pc = "create"])
    /\ UNCHANGED <<users, posts, nextPost, session, redUrl, unlinks, alive>>

\* await post.save() and what follows it
PostSave(c, ok) ==
    /\ alive /\ req[c].pc = "create"
    /\ LET r == req[c] IN
       IF ~ok
       THEN /\ Set(c, [Status(r, "500", "Internal Server Error") EXCEPT
                          !.flash = <<"Internal Server Error">>, !.file = r.file])
            /\ UNCHANGED <<posts, nextPost>>
       ELSE /\ posts' = [i \in PostIds \cup {nextPost} |->
                            IF i = nextPost THEN NewPost(r) ELSE posts[i]]
            /\ nextPost' = nextPost + 1
            /\ Set(c, Redirect([Did(r, "writePost") EXCEPT !.id = nextPost],
                               Path("/dashboard")))
    /\ UNCHANGED <<sent, users, blobs, nextBlob, session, redUrl, unlinks, alive>>

\* storeOriginalUrl: res.cookie('redUrl', req.url) for a visitor not signed in
storeOriginalUrl(c, r, url) ==
    redUrl' = [redUrl EXCEPT ![c] = IF ~isAuthenticated(r) THEN url ELSE @]

\* app.get('/myposts', storeOriginalUrl, isLoggedin, ...)
GetMyposts(c) ==
    /\ CanSend(c)
    /\ LET r == Incoming(c, "GET /myposts") IN
       /\ storeOriginalUrl(c, r, Path("/myposts"))
       /\ Set(c, IF ~isAuthenticated(r) THEN Redirect(r, Path("/login"))
                 ELSE [r EXCEPT !.pc = "find"])
    /\ UNCHANGED <<users, posts, blobs, nextBlob, nextPost, session, unlinks, alive>>

\* Post.find({authorId}).then(render).catch(console.error): a rejected find
\* is logged and nothing is sent
MypostsFind(c, ok) ==
    /\ alive /\ req[c].pc = "find"
    /\ LET r == Did(req[c], "readPost") IN
       Set(c, IF ok THEN Render(r, "dirupload") ELSE Hang(r))
    /\ UNCHANGED <<sent, users, posts, blobs, nextBlob, nextPost, session, redUrl,
                   unlinks, alive>>

\* app.get('/dashboard', isLoggedin, ...)
GetDashboard(c) ==
    /\ CanSend(c)
    /\ LET r == Incoming(c, "GET /dashboard") IN
       Set(c, IF ~isAuthenticated(r) THEN Redirect(r, Path("/login"))
              ELSE Render(r, "admin"))
    /\ UNCHANGED <<users, posts, blobs, nextBlob, nextPost, session, redUrl,
                   unlinks, alive>>

\* ------------------------------------------------------------ delete
\* app.get('/delete/:id', isLoggedin, ...) up to the first await
GetDelete(c, id) ==
    /\ CanSend(c)
    /\ LET r == [Incoming(c, "GET /delete") EXCEPT !.id = id] IN
       Set(c, IF ~isAuthenticated(r) THEN Redirect(r, Path("/login"))
              ELSE [r EXCEPT !.pc = "findById"])
    /\ UNCHANGED <<users, posts, blobs, nextBlob, nextPost, session, redUrl,
                   unlinks, alive>>

Unlink_Never(file, by) == UNCHANGED unlinks

\* fs.unlink(path, callback): the call is queued, its callback runs later
Unlink(file, by) == unlinks' = unlinks (+) SetToBag({[file |-> file, by |-> by]})

\* from `await Post.findById(postId)` to `await Post.deleteOne(...)`
DeleteFind(c, ok) ==
    /\ alive /\ req[c].pc = "findById" /\ req[c].route = "GET /delete"
    /\ LET r == Did(req[c], "readPost") IN
       IF ~ok
       THEN Set(c, Status(r, "500", "Internal Server Error")) /\ UNCHANGED unlinks
       ELSE IF r.id \notin PostIds
       THEN Set(c, Status(r, "404", "Post not found")) /\ UNCHANGED unlinks
       ELSE LET post == posts[r.id]
                q == [Seen(r, "stranger", post.authorId # r.user) EXCEPT
                         !.filename = post.filename, !.author = post.authorId] IN
            IF ~MayDelete(post.authorId, r.user)
            THEN /\ Set(c, Status(q, "403", "You are not authorized to delete this post"))
                 /\ UNCHANGED unlinks
            ELSE /\ Unlink(post.filename, "delete")
                 /\ Set(c, [Did(q, "unlink") EXCEPT !.pc = "deleteOne"])
    /\ UNCHANGED <<sent, users, posts, blobs, nextBlob, nextPost, session, redUrl, alive>>

\* await Post.deleteOne({_id: postId}); res.redirect('/myposts')
DeleteOne(c, ok) ==
    /\ alive /\ req[c].pc = "deleteOne"
    /\ LET r == req[c] IN
       IF ~ok
       THEN Set(c, Status(r, "500", "Internal Server Error")) /\ UNCHANGED posts
       ELSE /\ posts' = [i \in PostIds \ {r.id} |-> posts[i]]
            /\ Set(c, Redirect(Did(r, "writePost"), Path("/myposts")))
    /\ UNCHANGED <<sent, users, blobs, nextBlob, nextPost, session, redUrl, unlinks, alive>>

\* the fs.unlink callbacks: the delete route's rethrows the error, which
\* nothing catches; the edit route's logs it
UnlinkDone(op, ok) ==
    /\ alive /\ BagIn(op, unlinks)
    /\ unlinks' = unlinks (-) SetToBag({op})
    /\ IF ok /\ op.file \in blobs
       THEN blobs' = blobs \ {op.file} /\ UNCHANGED alive
       ELSE UNCHANGED blobs /\ alive' = (op.by # "delete")
    /\ UNCHANGED <<sent, users, posts, nextBlob, nextPost, session, redUrl, req,
                   detour, spent, loggedOut, saves>>

\* ------------------------------------------------------------ edit
\* app.get('/post/edit/:postId', storeOriginalUrl, isLoggedin, ...)
GetEdit(c, id) ==
    /\ CanSend(c)
    /\ LET r == [Incoming(c, "GET /post/edit") EXCEPT !.id = id] IN
       /\ storeOriginalUrl(c, r, EditPath(id))
       /\ Set(c, IF ~isAuthenticated(r) THEN Redirect(r, Path("/login"))
                 ELSE [r EXCEPT !.pc = "findById"])
    /\ UNCHANGED <<users, posts, blobs, nextBlob, nextPost, session, unlinks, alive>>

EditViewFind(c, ok) ==
    /\ alive /\ req[c].pc = "findById" /\ req[c].route = "GET /post/edit"
    /\ LET r == Did(req[c], "readPost") IN
       Set(c, IF ~ok THEN Status(r, "500", "Internal Server Error")
              ELSE IF r.id \notin PostIds THEN Status(r, "404", "Post not found")
              ELSE IF ~MayEdit(posts[r.id].authorId, r.user)
              THEN Status(r, "403", "You are not authorized to edit this post")
              ELSE Render(r, "edit"))
    /\ UNCHANGED <<sent, users, posts, blobs, nextBlob, nextPost, session, redUrl,
                   unlinks, alive>>

\* app.post('/post/edit/:postId', upload.single('newImage'), ...): no
\* isLoggedin in the chain, the upload runs for every caller
PostEdit(c, id, text, hasFile) ==
    /\ CanSend(c)
    /\ hasFile => nextBlob <= MaxBlobs
    /\ LET file == Upload(hasFile)
           r == [Incoming(c, "POST /post/edit") EXCEPT
                    !.id = id, !.title = text.title, !.body = text.body,
                    !.file = file] IN
       /\ Uploaded(file)
       /\ Set(c, [(IF hasFile THEN Did(r, "upload") ELSE r) EXCEPT !.pc = "findById"])
    /\ UNCHANGED <<users, posts, nextPost, session, redUrl, unlinks, alive>>

\* from `await Post.findById(postId)` to `await post.save()`; with no
\* req.user, `req.user._id` throws into the catch
EditFind(c, ok) ==
    /\ alive /\ req[c].pc = "findById" /\ req[c].route = "POST /post/edit"
    /\ LET r == Did(req[c], "readPost") IN
       Set(c, IF ~ok THEN Status(r, "500", "Internal Server Error")
              ELSE IF r.id \notin PostIds THEN Status(r, "404", "Post not found")
              ELSE IF r.user = NoUser THEN Status(r, "500", "Internal Server Error")
              ELSE IF ~MayEdit(posts[r.id].authorId, r.user)
              THEN Status(Seen(r, "stranger", posts[r.id].authorId # r.user),
                          "403", "You are not authorized to edit this post")
              ELSE [r EXCEPT !.filename = posts[r.id].filename,
                             !.author = posts[r.id].authorId,
                             !.seen = Len(saves), !.pc = "update"])
    /\ UNCHANGED <<sent, users, posts, blobs, nextBlob, nextPost, session, redUrl,
                   unlinks, alive>>

\* post.save() writes the paths the handler assigned: title, body and, with
\* a new image, filename
Saved(stored, r) ==
    [stored EXCEPT !.title = r.title, !.body = r.body,
                   !.filename = EditedFilename(@, r.file)]

\* if (req.file && oldFilename) fs.unlink(oldFilePath, ...)
UnlinksOld(r) == r.file # NoFile /\ r.filename # NoFile

\* await post.save() and what follows it; saving a document that is no
\* longer in the collection rejects
EditSave(c, ok) ==
    /\ alive /\ req[c].pc = "update"
    /\ LET r == req[c] IN
       IF ~ok \/ r.id \notin PostIds
       THEN /\ Set(c, Status(r, "500", "Internal Server Error"))
            /\ UNCHANGED <<posts, unlinks>>
       ELSE /\ posts' = [posts EXCEPT ![r.id] = Saved(@, r)]
            /\ IF UnlinksOld(r) THEN Unlink(r.filename, "edit") ELSE UNCHANGED unlinks
            /\ Set(c, Redirect(Did(IF UnlinksOld(r) THEN Did(r, "unlink") ELSE r,
                                   "writePost"), EditPath(r.id)))
    /\ UNCHANGED <<sent, users, blobs, nextBlob, nextPost, session, redUrl, alive>>

\* ------------------------------------------------------------ public pages
\* Post.find({}).sort({ createdAt: order }): the least (order 1) or greatest
\* (order -1) createdAt first; the order among equal keys is the store's
RECURSIVE Sorts(_, _)
Sorts(S, order) ==
    IF S = {} THEN {<<>>}
    ELSE UNION {{<<i>> \o s : s \in Sorts(S \ {i}, order)} :
                i \in {i \in S : \A j \in S :
                          order * posts[i].createdAt <= order * posts[j].createdAt}}

\* app.get('/', storeOriginalUrl, ...) up to the query
GetHome(c, sortby) ==
    /\ CanSend(c)
    /\ LET r == [Incoming(c, "GET /") EXCEPT !.sortby = sortby] IN
       /\ storeOriginalUrl(c, r, HomeUrl(sortby))
       /\ Set(c, [r EXCEPT !.pc = "sort"])
    /\ UNCHANGED <<users, posts, blobs, nextBlob, nextPost, session, unlinks, alive>>

\* .then(posts => res.render('index', ...)).catch(... res.status(500) ...)
HomeFind(c, ok) ==
    /\ alive /\ req[c].pc = "sort"
    /\ LET r == Did(req[c], "readPost") IN
       IF ~ok THEN Set(c, Status(r, "500", "Internal Server Error"))
       ELSE \E list \in Sorts(PostIds, SortOrder(r.sortby)) :
                Set(c, [Render(r, "index") EXCEPT !.list = list])
    /\ UNCHANGED <<sent, users, posts, blobs, nextBlob, nextPost, session, redUrl,
                   unlinks, alive>>

\* app.get('/posts/:id', ...) up to the await
ViewPost(c, id) ==
    /\ CanSend(c)
    /\ LET r == [Incoming(c, "GET /posts") EXCEPT !.id = id] IN
       Set(c, IF ~isValid(id) THEN Status(r, "400", "Invalid post ID")
              ELSE [r EXCEPT !.pc = "findPost"])
    /\ UNCHANGED <<users, posts, blobs, nextBlob, nextPost, session, redUrl,
                   unlinks, alive>>

\* await Post.findOne({ _id: postId }) and what follows it; an id that
\* cannot be cast to ObjectId rejects the query
ViewPostFind(c, ok) ==
    /\ alive /\ req[c].pc = "findPost"
    /\ LET r == Seen(Did(req[c], "readPost"), "absent", req[c].id \notin PostIds) IN
       Set(c, IF ~ok \/ r.id = BadId THEN Status(r, "500", "Internal Server Error")
              ELSE IF r.id \notin PostIds THEN Status(r, "404", "Post not found")
              ELSE Render(r, "post"))
    /\ UNCHANGED <<sent, users, posts, blobs, nextBlob, nextPost, session, redUrl,
                   unlinks, alive>>

\* app.get('/posts/user/:id', ...) up to the await
ViewUserPosts(c, id) ==
    /\ CanSend(c)
    /\ Set(c, [Incoming(c, "GET /posts/user") EXCEPT !.author = id, !.pc = "findBy"])
    /\ UNCHANGED <<users, posts, blobs, nextBlob, nextPost, session, redUrl,
                   unlinks, alive>>

\* await Post.find({ authorId }) and what follows it
ViewUserPostsFind(c, ok) ==
    /\ alive /\ req[c].pc = "findBy"
    /\ LET r == Did(req[c], "readPost") IN
       Set(c, IF ok THEN Render(r, "index")
              ELSE Status(r, "500", "Internal Server Error"))
    /\ UNCHANGED <<sent, users, posts, blobs, nextBlob, nextPost, session, redUrl,
                   unlinks, alive>>

\* ------------------------------------------------------------ specification
Ids == 1..MaxPosts
\* the :id parameters clients send to /posts/:id
PostParams == Ids \cup {BadId}

Next ==
    \/ \E c \in Clients, route \in Routes : DeserializeError(c, route)
    \/ \E c \in Clients : GetSignup(c)
    \/ \E c \in Clients, cred \in Credentials : PostSignup(c, cred)
    \/ \E c \in Clients, ok \in BOOLEAN : SignupFindOne(c, ok)
    \/ \E c \in Clients, ok \in BOOLEAN : SignupSave(c, ok)
    \/ \E c \in Clients, ok \in BOOLEAN : SignupLogin(c, ok)
    \/ \E c \in Clients : GetLogin(c)
    \/ \E c \in Clients, cred \in Credentials : PostLogin(c, cred)
    \/ \E c \in Clients, ok \in BOOLEAN : LoginVerify(c, ok)
    \/ \E c \in Clients, ok \in BOOLEAN : LoginEstablish(c, ok)
    \/ \E c \in Clients : GetLogout(c)
    \/ \E c \in Clients, ok \in BOOLEAN : LogoutDone(c, ok)
    \/ \E c \in Clients, t \in Texts, f \in BOOLEAN : PostPost(c, t, f)
    \/ \E c \in Clients, ok \in BOOLEAN : PostSave(c, ok)
    \/ \E c \in Clients : GetMyposts(c)
    \/ \E c \in Clients, ok \in BOOLEAN : MypostsFind(c, ok)
    \/ \E c \in Clients : GetDashboard(c)
    \/ \E c \in Clients, id \in Ids : GetDelete(c, id)
    \/ \E c \in Clients, ok \in BOOLEAN : DeleteFind(c, ok)
    \/ \E c \in Clients, ok \in BOOLEAN : DeleteOne(c, ok)
    \/ \E op \in BagToSet(unlinks), ok \in BOOLEAN : UnlinkDone(op, ok)
    \/ \E c \in Clients, id \in Ids : GetEdit(c, id)
    \/ \E c \in Clients, ok \in BOOLEAN : EditViewFind(c, ok)
    \/ \E c \in Clients, id \in Ids, t \in Texts, f \in BOOLEAN : PostEdit(c, id, t, f)
    \/ \E c \in Clients, ok \in BOOLEAN : EditFind(c, ok)
    \/ \E c \in Clients, ok \in BOOLEAN : EditSave(c, ok)
    \/ \E c \in Clients, s \in Sortbys : GetHome(c, s)
    \/ \E c \in Clients, ok \in BOOLEAN : HomeFind(c, ok)
    \/ \E c \in Clients, id \in PostParams : ViewPost(c, id)
    \/ \E c \in Clients, ok \in BOOLEAN : ViewPostFind(c, ok)
    \/ \E c \in Clients, id \in 1..MaxUsers : ViewUserPosts(c, id)
    \/ \E c \in Clients, ok \in BOOLEAN : ViewUserPostsFind(c, ok)

Spec == Init /\ [][Next]_vars

\* libuv runs every queued fs.unlink and then its callback
UnlinkCompletes == \E op \in BagToSet(unlinks), ok \in BOOLEAN : UnlinkDone(op, ok)

LiveNext == Next /\ sent' <= MaxLiveRequests

LiveSpec == Init /\ [][LiveNext]_vars /\ WF_vars(UnlinkCompletes)

\* ------------------------------------------------------------ claims
Answered(r, route) == r.route = route /\ r.pc = "done"
RedirectedTo(r, to) == r.status = "redirect" /\ r.target = to

\* C1: in every reachable state the User collection holds at most one User
\* per email, whatever the interleaving of signup requests.
C1_OneUserPerEmail ==
    \A i, j \in UserIds : users[i].email = users[j].email => i = j

\* C2: a POST /signup by a visitor without a session, with a well-formed
\* email, a password of at least 6 characters and an email that no User has
\* when the existence check runs, has, once answered, added exactly one User,
\* that User carries the submitted email, and the requester's session
\* identifies it.
C2_SignupCreatesOneUserAndSession ==
    \A c \in Clients :
        LET r == req[c] IN
        (Answered(r, "POST /signup") /\ r.user = NoUser
            /\ {"valid", "unused"} \subseteq r.eff)
        => /\ r.made = 1
           /\ r.newUser \in UserIds
           /\ users[r.newUser].email = r.email
           /\ session[c] = r.newUser
           /\ r.status = "redirect"

C2_Witness ==
    \E c \in Clients :
        /\ Answered(req[c], "POST /signup") /\ req[c].user = NoUser
        /\ {"valid", "unused"} \subseteq req[c].eff
        /\ req[c].made = 1 /\ session[c] = req[c].newUser

\* C3: a POST /login that is answered without a store error establishes a
\* session for a User registered under the submitted email and password
\* whenever there is one; with an unknown email, or a registered email and
\* a password no User of that email has, it establishes no session,
\* redirects to /login and flashes one and the same message.
C3_LoginByCredentials ==
    \A c \in Clients :
        LET r == req[c] IN
        (Answered(r, "POST /login") /\ r.status # "500")
        => /\ "correct" \in r.eff =>
                /\ "login" \in r.eff
                /\ session[c] \in RegisteredAs(r.email, users[session[c]].password.of)
                /\ session[c] = r.newUser
           /\ (r.eff \cap {"unknown", "wrong"}) # {} =>
                /\ "login" \notin r.eff
                /\ session[c] = r.user
                /\ RedirectedTo(r, Path("/login"))
                /\ r.flash = <<"Incorrect email or password">>

\* C4: an unauthenticated GET /myposts is answered with a redirect to /login
\* and leaves /myposts in the redUrl cookie; when GET /login and then a
\* successful POST /login follow, the login is answered with a redirect to
\* /myposts.
C4_LoginReturnsToMyposts ==
    \A c \in Clients :
        LET r == req[c] IN
        /\ (Answered(r, "GET /myposts") /\ r.user = NoUser)
           => /\ RedirectedTo(r, Path("/login"))
              /\ redUrl[c] = Path("/myposts")
        /\ (detour[c] = 3 /\ r.pc = "done")
           => /\ Answered(r, "POST /login")
              /\ RedirectedTo(r, Path("/myposts"))
              /\ session[c] # NoUser

C4_Witness ==
    \E c \in Clients :
        /\ detour[c] = 3
        /\ Answered(req[c], "POST /login")
        /\ RedirectedTo(req[c], Path("/myposts"))

\* C5: a GET /delete/:id that finds the Post and whose user is neither its
\* author nor admin-flagged is answered with 403, and the request neither
\* starts a blob deletion nor deletes the Post record.
C5_StrangerCannotDelete ==
    \A c \in Clients :
        LET r == req[c] IN
        (r.route = "GET /delete" /\ "stranger" \in r.eff)
        => /\ r.pc = "done"
           /\ r.status = "403"
           /\ (r.eff \cap {"unlink", "writePost"}) = {}

C5_Witness ==
    \E c \in Clients :
        /\ Answered(req[c], "GET /delete") /\ "stranger" \in req[c].eff
        /\ req[c].status = "403"
        /\ req[c].id \in PostIds
        /\ posts[req[c].id].filename \in blobs

\* C6: once GET /delete/:id has been answered with the redirect to /myposts
\* (which only the Post's author obtains), the Post record is not in the
\* collection, and the file the Post named is eventually gone from the upload
\* directory, unless its unlink failed, which ends the process.
DeleteRedirected(c) ==
    Answered(req[c], "GET /delete") /\ RedirectedTo(req[c], Path("/myposts"))

EditSaved(c) ==
    /\ req[c].pc = "update" /\ req'[c].pc = "done"
    /\ req'[c].status = "redirect"

C7_EditFilenameAndOldBlob ==
    [][\A c \in Clients :
        (req[c].route = "POST /post/edit" /\ req'[c] # req[c])
        => /\ EditSaved(c)
              => /\ req[c].id \in DOMAIN posts'
                 /\ posts'[req[c].id].filename =
                        (IF req[c].file = NoFile THEN posts[req[c].id].filename
                         ELSE req[c].file)
                 /\ unlinks' = (IF req[c].file = NoFile THEN unlinks
                                ELSE unlinks (+) SetToBag({[file |-> req[c].filename,
                                                            by |-> "edit"]}))
           /\ ~EditSaved(c) => unlinks' = unlinks /\ posts' = posts
    ]_vars

C7_Witness ==
    \E c \in Clients :
        /\ Answered(req[c], "POST /post/edit")
        /\ {"upload", "unlink", "writePost"} \subseteq req[c].eff
        /\ req[c].id \in PostIds
        /\ posts[req[c].id].filename # req[c].filename
        /\ posts[req[c].id].filename \in blobs

\* C8: in every reachable state every Post in the collection has a filename
\* that names a file present in the upload directory.
C8_FilenameNamesBlob ==
    \A i \in PostIds : posts[i].filename \in blobs

\* C9: a request without a valid session to POST /post, GET /myposts,
\* GET /dashboard, GET /delete/:id, GET or POST /post/edit/:postId is
\* answered with a redirect to /login and neither reads nor writes the Post
\* collection or the upload directory.
GatedRoutes ==
    {"POST /post", "GET /myposts", "GET /dashboard", "GET /delete",
     "GET /post/edit", "POST /post/edit"}

C9_GatedRoutesRedirect ==
    \A c \in Clients :
        LET r == req[c] IN
        (r.route \in GatedRoutes /\ r.user = NoUser /\ r.pc = "done")
        => /\ RedirectedTo(r, Path("/login"))
           /\ (r.eff \cap {"readPost", "writePost", "upload", "unlink"}) = {}

\* C10: a GET or POST to /signup or /login made with a valid session is
\* answered with a redirect to /dashboard and leaves the session's User and
\* the User collection as they were.
EntryRoutes == {"GET /signup", "POST /signup", "GET /login", "POST /login"}

C10_EntryRoutesWhenSignedIn ==
    \A c \in Clients :
        LET r == req[c] IN
        (r.route \in EntryRoutes /\ r.pc = "done" /\ r.user # NoUser
            /\ r.status # "500")
        => /\ RedirectedTo(r, Path("/dashboard"))
           /\ session[c] = r.user
           /\ r.made = 0

\* C11: every request is answered and the process keeps serving, also when
\* a store call, a blob call or the session establishment fails: no request
\* is ever left without a response by a handler that has ended, and no
\* uncaught exception or rejection ends the process.
C11_EveryRequestAnswered ==
    /\ alive
    /\ \A c \in Clients : req[c].pc # "hung"

\* ------------------------------------------------------------ the feed
\* the collections the homepage is asked to list: up to MaxFeedPosts Posts of
\* the first User, created at any times, equal times included
Feeds ==
    UNION {[1..n -> [title : {"t1"}, body : {"b1"}, filename : {1}, authorId : {1},
                     username : {"ann"}, createdAt : 1..MaxTime]] :
           n \in 0..MaxFeedPosts}

FeedInit ==
    /\ users = <<[email |-> Email("ann", "x.io"), password |-> Hash(<<1, 1, 1, 1, 1, 1>>)]>>
    /\ posts \in Feeds
    /\ blobs = {1}
    /\ nextBlob = 2
    /\ nextPost = Cardinality(DOMAIN posts) + 1
    /\ session = [c \in Clients |-> NoUser]
    /\ Started

FeedNext ==
    /\ \/ \E c \in Clients, s \in Sortbys : GetHome(c, s)
       \/ \E c \in Clients, ok \in BOOLEAN : HomeFind(c, ok)
    /\ sent' <= MaxFeedRequests

FeedSpec == FeedInit /\ [][FeedNext]_vars

\* C12: a GET / that is answered with the index page lists every Post of the
\* collection exactly once, by createdAt ascending when sortby is 'old' and
\* descending for any other value and for no value; Posts created at
\* t1 < t2 < t3 are listed [t1, t2, t3] and [t3, t2, t1].
Listed(r) == Answered(r, "GET /") /\ r.status = "render"
Times(list) == [k \in DOMAIN list |-> posts[list[k]].createdAt]

C12_FeedOrderedByCreatedAt ==
    \A c \in Clients :
        LET r == req[c]
            n == Len(r.list) IN
        Listed(r)
        => /\ n = Cardinality(PostIds)
           /\ {r.list[k] : k \in 1..n} = PostIds
           /\ \A k \in 1..(n - 1) :
                IF r.sortby = "old"
                THEN Times(r.list)[k] <= Times(r.list)[k + 1]
                ELSE Times(r.list)[k] >= Times(r.list)[k + 1]
           /\ {posts[i].createdAt : i \in PostIds} = {1, 2, 3} /\ n = 3
              => Times(r.list) = (IF r.sortby = "old" THEN <<1, 2, 3>> ELSE <<3, 2, 1>>)

C12_Witness ==
    \E c, d \in Clients :
        /\ Listed(req[c]) /\ req[c].sortby = "old"
        /\ Times(req[c].list) = <<1, 2, 3>>
        /\ req[c].list # <<1, 2, 3>>
        /\ Listed(req[d]) /\ req[d].sortby = ""
        /\ Times(req[d].list) = <<3, 2, 1>>

\* C13: a GET /posts/:id whose id is not a well-formed identifier is answered
\* with 400 in the step that receives it, before any lookup in the Post
\* collection; one with a well-formed id that matches no Post when the
\* lookup runs is, unless the lookup itself fails, answered with 404.
C13_MalformedIdIs400 ==
    \A c \in Clients :
        LET r == req[c] IN
        r.route = "GET /posts"
        => /\ r.id = BadId
              => /\ r.pc = "done" /\ r.status = "400"
                 /\ "readPost" \notin r.eff
           /\ (r.pc = "done" /\ r.id \in Ids /\ "absent" \in r.eff /\ r.status # "500")
              => r.status = "404"
           /\ r.status = "404" => "absent" \in r.eff

C13_Witness ==
    \E c, d \in Clients :
        /\ Answered(req[c], "GET /posts") /\ req[c].id = BadId
        /\ req[c].status = "400"
        /\ Answered(req[d], "GET /posts") /\ req[d].id \in Ids \ PostIds
        /\ req[d].status = "404"

\* C14: a step changes a stored Post only as the save of an edit submission
\* whose req.user is the Post's author, and then only in title, body and
\* filename; a step removes a Post only as the deleteOne of a delete request
\* whose req.user is the Post's author or admin-flagged; an edit submission
\* of a signed-in user who is not the author is answered with 403 and never
\* writes the Post.
EditedBy(c, i) ==
    /\ req[c].route = "POST /post/edit" /\ req[c].pc = "update" /\ req[c].id = i
    /\ req'[c].pc = "done"
    /\ req[c].user # NoUser /\ req[c].user = posts[i].authorId

DeletedBy(c, i) ==
    /\ req[c].route = "GET /delete" /\ req[c].pc = "deleteOne" /\ req[c].id = i
    /\ req'[c].pc = "done"
    /\ req[c].user # NoUser
    /\ req[c].user = posts[i].authorId \/ isAdmin(req[c].user)

C14_OnlyAuthorChangesPost ==
    [][/\ \A i \in DOMAIN posts :
            /\ (i \in DOMAIN posts' /\ posts'[i] # posts[i])
               => /\ \E c \in Clients : EditedBy(c, i)
                  /\ posts'[i] = [posts[i] EXCEPT !.title = posts'[i].title,
                                                  !.body = posts'[i].body,
                                                  !.filename = posts'[i].filename]
            /\ i \notin DOMAIN posts' => \E c \in Clients : DeletedBy(c, i)
       /\ \A c \in Clients :
            (req'[c].route = "POST /post/edit" /\ "stranger" \in req'[c].eff)
            => /\ req'[c].pc = "done" /\ req'[c].status = "403"
               /\ "writePost" \notin req'[c].eff
               /\ req'[c] # req[c] => posts' = posts
    ]_vars

C14_Witness ==
    \E c \in Clients :
        /\ Answered(req[c], "POST /post/edit") /\ "stranger" \in req[c].eff
        /\ req[c].status = "403" /\ req[c].id \in PostIds
        /\ req[c].user \in UserIds \ {posts[req[c].id].authorId}
        /\ posts[req[c].id].title = "t1" /\ posts[req[c].id].filename = 1

\* C15: when the fs.unlink a delete request issued reports an error (the
\* call leaves the queue and the upload directory is as it was), the error
\* is only logged: the step does not end the process, so the request goes
\* on to delete the Post record and to redirect to /myposts.
C15_UnlinkFailureOnlyLogged ==
    [][\A op \in BagToSet(unlinks) :
        (op.by = "delete" /\ unlinks' = unlinks (-) SetToBag({op}) /\ blobs' = blobs)
        => alive'
    ]_vars

\* C16: a POST /post of a signed-in user that did not store its Post (the
\* save failed, or no image came with it) is answered with 500, and from
\* then on no Post in the collection is that request's and the file the
\* request uploaded is not in the upload directory.
C16_FailedPostLeavesNothing ==
    \A c \in Clients :
        LET r == req[c] IN
        (Answered(r, "POST /post") /\ r.user # NoUser /\ "writePost" \notin r.eff)
        => /\ r.status = "500"
           /\ r.id = NoPost
           /\ \A i \in PostIds : r.file # NoFile => posts[i].filename # r.file
           /\ r.file \notin blobs

\* C17: once a successful login or signup of a client has redirected to the
\* recorded path, the record is used up: the next successful login or signup
\* of that client, with no request of it in between that entered GET /,
\* GET /myposts or GET /post/edit/:postId while not signed in, is answered
\* with the redirect to /dashboard.
C17_RecordedPathUsedOnce ==
    [][\A c \in Clients :
        (/\ spent[c]
         /\ req[c].pc \in {"login", "establish"}
         /\ req'[c].pc = "done" /\ "login" \in req'[c].eff)
        => RedirectedTo(req'[c], Path("/dashboard"))
    ]_vars

\* C18: a request whose session names a User that the lookup of
\* deserializeUser does not deliver, because the lookup fails, is handled as
\* a request without a session: a gated route answers with the redirect to
\* /login, and any other route is served without an error status.
C18_FailedRestoreIsSignedOut ==
    \A c \in Clients :
        LET r == req[c] IN
        "lookupFailed" \in r.eff
        => /\ (r.pc = "done" /\ r.route \in GatedRoutes)
              => RedirectedTo(r, Path("/login"))
           /\ (r.pc = "done" /\ r.route \notin GatedRoutes)
              => r.status # "500"

\* C19: a GET /logout is answered, with the redirect to / after the session
\* has been ended or, when ending the session fails, with an error response;
\* a client that has been logged out has no session user, and each of its
\* requests to a gated route is answered with the redirect to /login, until
\* a login or signup of it establishes a session again.
C19_LogoutEndsSession ==
    \A c \in Clients :
        LET r == req[c] IN
        /\ r.route = "GET /logout"
           => /\ r.pc \in {"logOut", "done"}
              /\ r.pc = "done" => (RedirectedTo(r, Path("/")) \/ r.status = "500")
        /\ loggedOut[c] => session[c] = NoUser
        /\ (loggedOut[c] /\ r.pc = "done" /\ r.route \in GatedRoutes)
           => RedirectedTo(r, Path("/login"))

\* ------------------------------------------------------------ two browsers
\* the first User has signed in from both clients (two successful logins
\* against the seeded database) before the requests under study arrive
SignedIn ==
    /\ Seeded
    /\ session = [c \in Clients |-> serializeUser(1)]
    /\ Started

RaceInit == Init \/ SignedIn

RaceSpec == RaceInit /\ [][Next]_vars

\* C20: when the save of an edit submission by the author goes through after
\* another edit submission saved the same Post since this one fetched it
\* (the two overlapped, and both have now completed), the stored title and
\* body are this submission's, the stored filename is this submission's new
\* image if it brought one, and the stored filename names a file present in
\* the upload directory.
Overlapped(c) ==
    \E k \in (req[c].seen + 1)..Len(saves) : saves[k] = req[c].id

C20_LastEditWins ==
    [][\A c \in Clients :
        (EditSaved(c) /\ Overlapped(c))
        => LET i == req[c].id IN
           /\ i \in DOMAIN posts'
           /\ posts'[i].title = req[c].title
           /\ posts'[i].body = req[c].body
           /\ req[c].file # NoFile => posts'[i].filename = req[c].file
           /\ posts'[i].filename \in blobs'
    ]_vars

====
